---- MODULE Spec2Model ----
(***************************************************************************)
(* A model of the job-search automation workflow: the job ledger           *)
(* (src/src/database_manager.py), the application submitter                *)
(* (src/src/job_applicator.py), the scraper (src/src/job_scraper.py), the  *)
(* config store (src/src/config_manager.py), the resume handler            *)
(* (src/src/resume_handler.py), the orchestrator (src/main.py) and the     *)
(* launcher window (src/gui_launcher.py).                                  *)
(*                                                                         *)
(* Eight specifications share the variables:                               *)
(*   Spec        the ledger driven by arbitrary calls of its operations;   *)
(*   SpecFilter  filter_jobs applied to bounded inputs;                    *)
(*   SpecBatch   batch_apply called on one JobApplicator, the submission   *)
(*               routines modelled step by step;                           *)
(*   SpecRun     one run of JobAutomationApp.run, started from main;       *)
(*   SpecScrape  one call of scrape_all_sources, page by page;             *)
(*   SpecConfig  a ConfigManager on any file, then get, set, load_config;  *)
(*   SpecResume  customize_resume applied to bounded texts and postings;   *)
(*   SpecGui     the launcher window: presses of its three run buttons     *)
(*               and the worker threads they start.                        *)
(***************************************************************************)
EXTENDS Integers, Sequences, FiniteSets, TLC

\* ------------------------------------------------------------------ bounds
MaxFilterJobs == 2      \* length of the list handed to filter_jobs (SpecFilter)
MaxKeywords == 1        \* length of each keyword / company list of the filters
MaxJobRows == 3         \* rows of the jobs table (Spec)
MaxApplications == 2    \* rows of the applications table (Spec)
MaxJobs == 2            \* postings one run retrieves, or one batch_apply call is given
MaxCap == 2             \* largest max_applications tried
MaxCalls == 2           \* batch_apply calls on one JobApplicator (SpecBatch)
MaxPages == 2           \* result pages an adapter asks for (keywords times pages)
MaxSets == 2            \* set calls on one ConfigManager (SpecConfig)
MaxTextLen == 4         \* characters of the resume text (SpecResume)
MaxPresses == 2         \* presses of the run buttons of the launcher (SpecGui)

\* ------------------------------------------------------------------ values
NULL == "NULL"          \* Python None, SQL NULL, where a name or path is expected
NullText == <<NULL>>    \* None where a text (title, company) is expected
NoId == 0               \* None where a rowid is expected (rowids start at 1)
None == <<>>            \* None where an optional integer <<n>> is expected

SeqsUpTo(S, n) == UNION {[1..k -> S] : k \in 0..n}
Range(s) == {s[k] : k \in 1..Len(s)}

\* ----------------------------------------------------------------- strings
\* A string is a sequence of characters: "p", "P", "q", "Q" and the blank.

\* str.lower(), character by character
LowerChar(c) == CASE c = "P" -> "p" [] c = "Q" -> "q" [] OTHER -> c
Lower(s) == [k \in 1..Len(s) |-> LowerChar(s[k])]

\* Python's `kw in text` on strings: kw occurs as a contiguous substring
\* (the empty string occurs in every string).
In(kw, text) ==
    \E s \in 0..(Len(text) - Len(kw)) : SubSeq(text, s + 1, s + Len(kw)) = kw

\* Titles and companies of the postings, and the keywords and company names
\* of the filters: "PQ" needs the keyword lower-cased, "p" the text
\* lower-cased, "q p" spans the blank between title and company, and the
\* company name "q" differs from the company "Q" only in case.
Titles == {<<"P", "q">>, <<"q">>}
Companies == {<<"Q">>, <<"p">>}
Keywords == {<<"p">>, <<"q", " ", "p">>, <<"P", "Q">>}
CompanyNames == {<<"Q">>, <<"q">>}

\* ---------------------------------------------------------------- postings
\* A posting as the adapters build it (job_scraper.py:67-75, 144-152); url is
\* NULL when a Glassdoor link has no href (get_attribute returns None).
Urls == {"u1", "u2"}

FilterPostings ==
    {[title |-> t, company |-> c, url |-> "u1", source |-> "Indeed"] :
        t \in Titles, c \in Companies}

\* The filters section of the configuration document (config_manager.py:97-102).
FilterSpace ==
    [exclude_keywords : SeqsUpTo(Keywords, MaxKeywords),
     required_keywords : SeqsUpTo(Keywords, MaxKeywords),
     min_salary : {0, 1},
     exclude_companies : SeqsUpTo(CompanyNames, MaxKeywords)]

\* Postings handed to the ledger operations in Spec: two titles on each URL,
\* a posting without URL and a posting without title.
T1 == <<"P", "q">>
T2 == <<"q">>
C1name == <<"Q">>
LedgerPostings ==
    {[title |-> t, company |-> C1name, url |-> u, source |-> "Indeed"] :
        t \in {T1, T2}, u \in Urls}
    \cup {[title |-> T1, company |-> C1name, url |-> NULL, source |-> "Glassdoor"],
          [title |-> NullText, company |-> C1name, url |-> "u1", source |-> "Indeed"]}

Statuses == {"pending", "applied", "rejected", "interviewed", "offered"}
StatusArgs == {"applied", "on hold"}
NotesArgs == {NULL, "note"}
ResumePath == "resumes/resume.docx"     \* config_manager.py:93

NoCall == [op |-> "none"]

\* config_manager.py:97-102, the default document's filters, its three
\* exclusion keywords standing as one
DefaultFilters ==
    [exclude_keywords |-> << <<"p">> >>, required_keywords |-> <<>>,
     min_salary |-> 0, exclude_companies |-> <<>>]

\* Postings the adapters return to a run: R1 is excluded by the default filters,
\* R4 shares its URL with R1, R3 has no URL.
R1 == [title |-> T1, company |-> C1name, url |-> "u1", source |-> "Indeed"]
R2 == [title |-> T2, company |-> C1name, url |-> "u2", source |-> "Glassdoor"]
R3 == [title |-> T2, company |-> C1name, url |-> NULL, source |-> "Glassdoor"]
R4 == [title |-> T2, company |-> C1name, url |-> "u1", source |-> "Indeed"]
RunPostings == {R1, R2, R3, R4}

\* Postings handed to batch_apply and apply_to_job directly: any source.
ApplyPostings ==
    {R2, R4, [title |-> T2, company |-> C1name, url |-> "u2", source |-> "Other"]}

NoFilters ==
    [exclude_keywords |-> <<>>, required_keywords |-> <<>>,
     min_salary |-> 0, exclude_companies |-> <<>>]

\* max_applications: None (no --max-apply) or an integer
Caps == {None} \cup {<<n>> : n \in 0..MaxCap}

NoAttempt == [ok |-> FALSE, apply_clicked |-> FALSE, submit_clicked |-> FALSE]

\* main.py:238-241  the command line: --no-apply, --test, --max-apply
Args == [no_apply : BOOLEAN, test : BOOLEAN, max_apply : Caps]
NoArgs == [no_apply |-> FALSE, test |-> FALSE, max_apply |-> None]

\* --------------------------------------------------------------- documents
\* A dotted key is a sequence of symbols, "." among them; a segment is a
\* sequence of symbols without "."; a path is a sequence of segments.
\* A JSON value is a tree: a function from the paths of its nodes to their
\* labels, the root at path <<>>.  The label "{}" marks a mapping (a dict);
\* any other label is a value that is no mapping (a number, a string, a list).
Mapping == "{}"
Leaf(label) == (<<>> :> label)
EmptyDocument == Leaf(Mapping)
Tree(pairs) == [p \in {x[1] : x \in pairs} |-> (CHOOSE x \in pairs : x[1] = p)[2]]
Seg(word) == <<word>>                   \* a segment of one symbol

Sections ==
    {"job_search", "application_settings", "resume", "filters", "database", "logging"}

\* config_manager.py:72-111
get_default_config ==
    Tree({<< <<>>, Mapping >>}
         \cup {<< <<Seg(sec)>>, Mapping >> : sec \in Sections}
         \cup {<< <<Seg("job_search"), Seg("keywords")>>, "list" >>,
               << <<Seg("job_search"), Seg("locations")>>, "list" >>,
               << <<Seg("job_search"), Seg("job_sources")>>, "list" >>,
               << <<Seg("job_search"), Seg("pages_to_scrape")>>, "5" >>,
               << <<Seg("application_settings"), Seg("auto_apply")>>, "true" >>,
               << <<Seg("application_settings"), Seg("max_applications_per_day")>>, "20" >>,
               << <<Seg("application_settings"), Seg("delay_between_applications")>>, "3" >>,
               << <<Seg("application_settings"), Seg("apply_to_all_matching")>>, "false" >>,
               << <<Seg("resume"), Seg("base_resume_path")>>, "resumes/resume.docx" >>,
               << <<Seg("resume"), Seg("customize_for_job")>>, "true" >>,
               << <<Seg("resume"), Seg("create_versions")>>, "true" >>,
               << <<Seg("filters"), Seg("exclude_keywords")>>, "list" >>,
               << <<Seg("filters"), Seg("required_keywords")>>, "list" >>,
               << <<Seg("filters"), Seg("min_salary")>>, "0" >>,
               << <<Seg("filters"), Seg("exclude_companies")>>, "list" >>,
               << <<Seg("database"), Seg("type")>>, "sqlite" >>,
               << <<Seg("database"), Seg("path")>>, "data/jobs.db" >>,
               << <<Seg("logging"), Seg("level")>>, "INFO" >>,
               << <<Seg("logging"), Seg("log_file")>>, "logs/automation.log" >>})

\* Documents a configuration file may hold: {}, {"a": "v"},
\* {"a": {"b": "v"}, "b": "v"}, and a file whose top level is a list.
FileDocuments ==
    {EmptyDocument,
     Tree({<< <<>>, Mapping >>, << <<Seg("a")>>, "v" >>}),
     Tree({<< <<>>, Mapping >>, << <<Seg("a")>>, Mapping >>,
           << <<Seg("a"), Seg("b")>>, "v" >>, << <<Seg("b")>>, "v" >>}),
     Leaf("list")}

\* config_manager.py:38-40  the file at config_path: not there, there but not
\* readable, readable but no JSON, or holding a JSON value
Files ==
    {[state |-> st, content |-> EmptyDocument] : st \in {"absent", "unreadable", "garbage"}}
    \cup {[state |-> "json", content |-> d] : d \in FileDocuments}
NoFile == [state |-> "absent", content |-> EmptyDocument]

\* The dotted keys get and set are called with: "a", "b", "a.b", "b.a",
\* "a.b.a", "job_search.keywords", "job_search.keywords.a".
DottedKeys ==
    {<<"a">>, <<"b">>, <<"a", ".", "b">>, <<"b", ".", "a">>,
     <<"a", ".", "b", ".", "a">>,
     <<"job_search", ".", "keywords">>,
     <<"job_search", ".", "keywords", ".", "a">>}
\* the values set is called with, and the default get is called with
SetValues == {Leaf("w"), EmptyDocument}
PyNone == Leaf("None")
Defaults == {PyNone, Leaf("d")}

\* ------------------------------------------------------------------ resume
\* A resume text is a sequence of characters.  The three placeholders stand
\* with their brackets and one letter each: "[J]" for [JOB_TITLE], "[C]" for
\* [COMPANY], "[L]" for [LOCATION].
JOB_TITLE == <<"[", "J", "]">>
COMPANY == <<"[", "C", "]">>
LOCATION == <<"[", "L", "]">>
TextChars == {"[", "J", "C", "L", "]", "x"}
ResumeTexts == SeqsUpTo(TextChars, MaxTextLen)

\* resume_handler.py:38-51  what load_resume returns: None (unsupported
\* format, unreadable file) or the content of the file
NoResume == [loaded |-> FALSE, content |-> <<>>]
ResumeFiles == {NoResume} \cup {[loaded |-> TRUE, content |-> t] : t \in ResumeTexts}

\* A dictionary key that is not there.
Missing == <<"MISSING">>
\* The postings customize_resume is called with: a plain title and a title
\* that reads like the company placeholder; a posting without location.
ResumeJobs ==
    [title : {<<"t">>, COMPANY}, company : {<<"c">>}, location : {<<"l">>, Missing}]
NoJob == [title |-> Missing, company |-> Missing, location |-> Missing]
\* keywords: None, or a list of keywords
KeywordArgs == {None, << <<"x">> >>, << <<"k">> >>}

\* ----------------------------------------------------------------- sources
\* config_manager.py:83 and documents listing fewer sources
DefaultSources == <<"indeed", "glassdoor", "linkedin">>
SourceLists == {DefaultSources, <<"indeed", "glassdoor">>, <<"indeed">>, <<>>}

VARIABLES
    pc,                 \* the statement the workflow is at
    config,             \* the configuration document, as far as run() reads it
    jobs,               \* run(): the retrieved postings
    filtered_jobs,      \* run(): the result of filter_jobs
    jobsTable,          \* ledger: the rows of table jobs, in insertion order
    applications,       \* ledger: the rows of table applications
    call,               \* Spec: the ledger call just made, with what it returned
    apply,              \* run(apply, max_applications)
    max_applications,
    steps,              \* run(): the steps started so far, in order
    failed,             \* run(): the step that raised, "none" if none did
    pos,                \* run(): position of the loops over jobs / applied_jobs
    stats,              \* run(): what get_statistics returned
    caller,             \* who called batch_apply: "run" or "api"
    calls,              \* batch_apply calls made on this JobApplicator
    batch_jobs,         \* batch_apply: its jobs argument
    i,                  \* batch_apply: the loop index, from 1
    applied_count,      \* batch_apply: its local counter
    results,            \* what batch_apply returned
    applied_jobs,       \* JobApplicator.applied_jobs
    failed_applications,\* JobApplicator.failed_applications
    driver,             \* the routine's local driver: "None" or "open"
    att,                \* the submission attempt in progress
    open_sessions,      \* browser sessions started and not quit
    attempts,           \* the attempts of this batch_apply call, each with its result
    events,             \* this batch_apply call's attempts and delays, in order
    args,               \* main(): the parsed command line
    job_sources,        \* config['job_search']['job_sources']
    invoked,            \* scrape_all_sources: the adapters called so far, in order
    page,               \* the adapter's page loop, from 1
    adapter_jobs,       \* the adapter's local list jobs
    all_jobs,           \* scrape_all_sources: all_jobs
    returned,           \* what each adapter called so far returned
    broke,              \* what has raised so far: <<adapter, "card" | "page" | "start">>
    file,               \* the configuration file at config_path
    document,           \* ConfigManager.config
    sets,               \* set() calls made on this ConfigManager
    resume_file,        \* what load_resume finds at base_resume_path
    resume_job,         \* customize_resume: job
    resume_keywords,    \* customize_resume: keywords
    customized,         \* what customize_resume returned
    threads             \* the launcher's worker threads, in order of start

filterVars == <<config, jobs, filtered_jobs>>
ledgerVars == <<jobsTable, applications>>
runVars == <<apply, steps, failed, pos, stats>>
batchVars == <<max_applications, caller, calls, batch_jobs, i, applied_count, results,
               attempts, events>>
applicatorVars == <<applied_jobs, failed_applications, driver, att, open_sessions>>
scraperVars == <<job_sources, invoked, page, adapter_jobs, all_jobs, returned, broke>>
storeVars == <<file, document, sets>>
resumeVars == <<resume_file, resume_job, resume_keywords, customized>>
restVars == <<args, resumeVars, threads, scraperVars, storeVars>>
vars == <<pc, config, jobs, filtered_jobs, jobsTable, applications, call,
          apply, max_applications, steps, failed, pos, stats,
          caller, calls, batch_jobs, i, applied_count, results,
          applied_jobs, failed_applications, driver, att, open_sessions,
          attempts, events, args,
          job_sources, invoked, page, adapter_jobs, all_jobs, returned, broke,
          file, document, sets,
          resume_file, resume_job, resume_keywords, customized, threads>>

\* JobApplicator.__init__ (job_applicator.py:23-27) and a run not yet started
Fresh ==
    /\ apply = FALSE
    /\ max_applications = None
    /\ steps = <<>>
    /\ failed = "none"
    /\ pos = 1
    /\ stats = [empty |-> TRUE]
    /\ caller = "api"
    /\ calls = 0
    /\ batch_jobs = <<>>
    /\ i = 1
    /\ applied_count = 0
    /\ results = [empty |-> TRUE]
    /\ applied_jobs = <<>>
    /\ failed_applications = <<>>
    /\ driver = "None"
    /\ att = NoAttempt
    /\ open_sessions = 0
    /\ attempts = <<>>
    /\ events = <<>>

\* Components a specification does not exercise stay as constructed.
ScraperIdle ==
    /\ job_sources = DefaultSources
    /\ invoked = <<>>
    /\ page = 1
    /\ adapter_jobs = <<>>
    /\ all_jobs = <<>>
    /\ returned = <<>>
    /\ broke = {}
StoreIdle ==
    /\ file = NoFile
    /\ document = EmptyDocument
    /\ sets = 0
ResumeIdle ==
    /\ resume_file = NoResume
    /\ resume_job = NoJob
    /\ resume_keywords = None
    /\ customized = NullText

\* ------------------------------------------------------------- filter_jobs
\* job_text built from the title alone
job_text_title_only(job) == Lower(job.title)

\* main.py:107  job_text = (title + ' ' + company).lower()
job_text(job) == Lower(job.title \o <<" ">> \o job.company)

\* main.py:109,115  any(keyword.lower() in job_text for keyword in keywords)
any_keyword_in(keywords, text) ==
    \E n \in 1..Len(keywords) : In(Lower(keywords[n]), text)

\* the company compared without regard to case
company_excluded_ignoring_case(job, exclude_companies) ==
    \E n \in 1..Len(exclude_companies) : Lower(exclude_companies[n]) = Lower(job.company)

\* main.py:120  job.get('company') in exclude_companies  (list membership, ==)
company_excluded(job, exclude_companies) ==
    \E n \in 1..Len(exclude_companies) : exclude_companies[n] = job.company

\* the required-keyword rule with its `not` lost
missing_required_inverted(required_keywords, text) ==
    /\ required_keywords # <<>>
    /\ any_keyword_in(required_keywords, text)

\* main.py:114-115  `if required_keywords: if not any(...)`
missing_required(required_keywords, text) ==
    /\ required_keywords # <<>>
    /\ ~any_keyword_in(required_keywords, text)

\* main.py:105-124, one iteration of the loop per recursion step
RECURSIVE filter_loop(_, _, _, _)
filter_loop(js, filters, k, filtered) ==
    IF k > Len(js) THEN filtered
    ELSE LET job == js[k]
             text == job_text(job)
         IN  IF any_keyword_in(filters.exclude_keywords, text)
             THEN filter_loop(js, filters, k + 1, filtered)
             ELSE IF missing_required(filters.required_keywords, text)
             THEN filter_loop(js, filters, k + 1, filtered)
             ELSE IF company_excluded(job, filters.exclude_companies)
             THEN filter_loop(js, filters, k + 1, filtered)
             ELSE filter_loop(js, filters, k + 1, Append(filtered, job))

\* a filter that lets nothing through once a minimum salary is configured
filter_jobs_salary_gate(js, filters) ==
    IF filters.min_salary > 0 THEN <<>> ELSE filter_loop(js, filters, 1, <<>>)

\* main.py:87-127
filter_jobs(js, filters) == filter_loop(js, filters, 1, <<>>)


\* ------------------------------------------------------------------ ledger
\* database_manager.py:40,56  INTEGER PRIMARY KEY AUTOINCREMENT: one more than
\* the largest rowid the table has held (no operation deletes a row).
RECURSIVE max_id(_)
max_id(rows) ==
    IF rows = <<>> THEN 0
    ELSE LET m == max_id(Tail(rows)) IN IF Head(rows).id > m THEN Head(rows).id ELSE m
next_rowid(rows) == max_id(rows) + 1

\* a jobs table whose url column is not UNIQUE
url_unique_violation_never(table, job) == FALSE

\* database_manager.py:44  url TEXT UNIQUE: a second row with the same non-NULL
\* url is refused (SQLite's UNIQUE treats NULLs as distinct from each other).
url_unique_violation(table, job) ==
    /\ job.url # NULL
    /\ \E n \in 1..Len(table) : table[n].url = job.url

\* database_manager.py:41-42  title TEXT NOT NULL, company TEXT NOT NULL
jobs_not_null_violation(job) == job.title = NullText \/ job.company = NullText

\* an add_job that writes with INSERT OR REPLACE: the row holding the url is
\* deleted and the posting stored as a new row
add_job_or_replace(table, job, fault) ==
    IF fault \/ jobs_not_null_violation(job)
    THEN [rows |-> table, ret |-> NoId]
    ELSE LET kept == SelectSeq(table, LAMBDA row : row.url = NULL \/ row.url # job.url)
             job_id == next_rowid(table)
         IN  [rows |-> Append(kept, [id |-> job_id, title |-> job.title,
                                     company |-> job.company, url |-> job.url,
                                     source |-> job.source]),
              ret |-> job_id]

\* database_manager.py:98-137.  fault: the database raised something else than
\* an IntegrityError (locked, I/O error), caught at line 135.
add_job(table, job, fault) ==
    IF fault \/ jobs_not_null_violation(job) \/ url_unique_violation(table, job)
    THEN [rows |-> table, ret |-> NoId]
    ELSE LET job_id == next_rowid(table)
         IN  [rows |-> Append(table, [id |-> job_id, title |-> job.title,
                                      company |-> job.company, url |-> job.url,
                                      source |-> job.source]),
              ret |-> job_id]

\* database_manager.py:139-169.  job_id INTEGER NOT NULL (line 57); the FOREIGN
\* KEY clause (line 64) is not enforced: the connection never issues
\* PRAGMA foreign_keys = ON, and SQLite's default is OFF.
add_application(apps, job_id, resume_path, status, fault) ==
    IF fault \/ job_id = NoId
    THEN [rows |-> apps, ret |-> NoId]
    ELSE LET app_id == next_rowid(apps)
         IN  [rows |-> Append(apps, [id |-> app_id, job_id |-> job_id,
                                     resume_path |-> resume_path,
                                     status |-> status, notes |-> NULL]),
              ret |-> app_id]

\* an UPDATE that keeps the stored notes when none are given
update_application_status_keep_notes(apps, app_id, status, notes, fault) ==
    IF fault THEN apps
    ELSE [n \in 1..Len(apps) |->
            IF apps[n].id = app_id
            THEN [apps[n] EXCEPT !.status = status,
                                 !.notes = IF notes = NULL THEN @ ELSE notes]
            ELSE apps[n]]

\* database_manager.py:171-196  UPDATE applications SET status, notes WHERE id
update_application_status(apps, app_id, status, notes, fault) ==
    IF fault THEN apps
    ELSE [n \in 1..Len(apps) |->
            IF apps[n].id = app_id
            THEN [apps[n] EXCEPT !.status = status, !.notes = notes]
            ELSE apps[n]]

\* a breakdown computed without GROUP BY: every status gets the total
status_breakdown_ungrouped(apps) ==
    [st \in {apps[n].status : n \in 1..Len(apps)} |-> Len(apps)]

\* database_manager.py:257-258  SELECT status, COUNT(*) ... GROUP BY status
status_breakdown(apps) ==
    [st \in {apps[n].status : n \in 1..Len(apps)} |->
        Cardinality({n \in 1..Len(apps) : apps[n].status = st})]

EmptyDict == [empty |-> TRUE]

\* database_manager.py:245-270
get_application_statistics(table, apps, fault) ==
    IF fault THEN EmptyDict
    ELSE [total_jobs |-> Len(table),
          total_applied |-> Len(apps),
          status_breakdown |-> status_breakdown(apps)]

\* -------------------------------------------------------------------- Spec
\* The ledger after DatabaseManager.__init__ on a new file, then any sequence
\* of calls of its operations.
Init ==
    /\ pc = "ledger"
    /\ config = [has_job_search |-> TRUE, has_delay |-> TRUE, has_filters |-> TRUE,
                 filters |-> DefaultFilters]
    /\ jobs = <<>>
    /\ filtered_jobs = <<>>
    /\ jobsTable = <<>>
    /\ applications = <<>>
    /\ call = NoCall
    /\ Fresh
    /\ args = NoArgs
    /\ ScraperIdle
    /\ StoreIdle
    /\ ResumeIdle
    /\ threads = <<>>

\* Any call may find the database failing (the except Exception branches).
Faults == BOOLEAN
\* The arguments the calls are made with; identifier 2 may or may not exist.
IdArgs == {1, 2}

AddJob ==
    /\ call = NoCall
    /\ Len(jobsTable) < MaxJobRows
    /\ \E job \in LedgerPostings, fault \in Faults :
         LET r == add_job(jobsTable, job, fault)
         IN  /\ jobsTable' = r.rows
             /\ call' = [op |-> "add_job", job |-> job, fault |-> fault, ret |-> r.ret]
    /\ UNCHANGED <<restVars, pc, filterVars, applications, runVars, batchVars, applicatorVars>>

AddApplication ==
    /\ call = NoCall
    /\ Len(applications) < MaxApplications
    /\ \E job_id \in IdArgs \cup {NoId}, status \in StatusArgs, fault \in Faults :
         LET r == add_application(applications, job_id, ResumePath, status, fault)
         IN  /\ applications' = r.rows
             /\ call' = [op |-> "add_application", job_id |-> job_id,
                         status |-> status, ret |-> r.ret]
    /\ UNCHANGED <<restVars, pc, filterVars, jobsTable, runVars, batchVars, applicatorVars>>

UpdateApplicationStatus ==
    /\ call = NoCall
    /\ \E app_id \in IdArgs, status \in StatusArgs, notes \in NotesArgs,
          fault \in Faults :
         /\ applications' =
                update_application_status(applications, app_id, status, notes, fault)
         /\ call' = [op |-> "update_application_status", app_id |-> app_id,
                     status |-> status, notes |-> notes, fault |-> fault,
                     ret |-> NoId]
    /\ UNCHANGED <<restVars, pc, filterVars, jobsTable, runVars, batchVars, applicatorVars>>

GetStatistics ==
    /\ call = NoCall
    /\ \E fault \in Faults :
         /\ call' = [op |-> "get_application_statistics", fault |-> fault,
                     ret |-> get_application_statistics(jobsTable, applications, fault)]
    /\ UNCHANGED <<restVars, pc, filterVars, jobsTable, applications, runVars, batchVars, applicatorVars>>

\* The caller takes the returned value; the next call can be made.
Return ==
    /\ call # NoCall
    /\ call' = NoCall
    /\ UNCHANGED <<restVars, pc, filterVars, ledgerVars, runVars, batchVars, applicatorVars>>

Next == AddJob \/ AddApplication \/ UpdateApplicationStatus \/ GetStatistics \/ Return

Spec == Init /\ [][Next]_vars

\* -------------------------------------------------------------- SpecFilter
InitFilter ==
    /\ pc = "filter_jobs"
    /\ config \in [has_job_search : {TRUE}, has_delay : {TRUE}, has_filters : {TRUE},
                   filters : FilterSpace]
    /\ jobs \in SeqsUpTo(FilterPostings, MaxFilterJobs)
    /\ filtered_jobs = <<>>
    /\ jobsTable = <<>>
    /\ applications = <<>>
    /\ call = NoCall
    /\ Fresh
    /\ args = NoArgs
    /\ ScraperIdle
    /\ StoreIdle
    /\ ResumeIdle
    /\ threads = <<>>

\* One call filter_jobs(jobs) with self.config['filters'] as configured.
FilterCall ==
    /\ pc = "filter_jobs"
    /\ filtered_jobs' = filter_jobs(jobs, config.filters)
    /\ pc' = "filtered"
    /\ UNCHANGED <<restVars, config, jobs, ledgerVars, call, runVars, batchVars, applicatorVars>>

NextFilter == FilterCall

SpecFilter == InitFilter /\ [][NextFilter]_vars

\* --------------------------------------------------------------- submitter
\* a dispatch whose last branch falls through to the Indeed routine
dispatch_else_indeed(source) ==
    IF source = "Glassdoor" THEN "_apply_glassdoor" ELSE "_apply_indeed"

\* job_applicator.py:44-50  the routine apply_to_job dispatches to
dispatch(source) ==
    CASE source = "Indeed" -> "_apply_indeed"
      [] source = "Glassdoor" -> "_apply_glassdoor"
      [] OTHER -> "unknown"

\* job_applicator.py:196  `if max_applications and applied_count >= max_applications`
\* (None and 0 are both false in Python)
cap_reached(cap, count) == cap # None /\ cap[1] # 0 /\ count >= cap[1]

\* job_applicator.py:206  `if i < len(jobs) - 1` with i counted from 0
delay_due(index, n) == index - 1 < n - 1

\* job_applicator.py:85-88 and 137-143: what the upload step leaves the attempt
\* in.  Indeed lets an exception of send_keys reach the inner handler (line
\* 103); Glassdoor swallows it (lines 142-143).
UploadOutcomes == {"absent", "sent", "send_raises", "find_raises"}
upload_continues(source, outcome) ==
    IF source = "Indeed" THEN outcome \in {"absent", "sent"}
    ELSE outcome \in {"absent", "sent", "send_raises"}

\* job_applicator.py:91-92 and 146-155: the submit step.  Indeed needs the
\* submit button; Glassdoor falls back to scanning all buttons and goes on
\* when none of them matches.
SubmitOutcomes == {"primary", "fallback_clicked", "fallback_none", "raises"}
submit_returns(source, outcome) ==
    IF source = "Indeed" THEN outcome = "primary"
    ELSE outcome \in {"primary", "fallback_clicked", "fallback_none"}
submit_clicks(source, outcome) ==
    IF source = "Indeed" THEN outcome = "primary"
    ELSE outcome \in {"primary", "fallback_clicked"}

\* a routine without its finally clause
finally_quits_never(d) == FALSE

\* job_applicator.py:110-112, 173-175  finally: if driver: driver.quit()
finally_quits(d) == d # "None"

\* job_applicator.py:209-215
batch_result(js, count, applied, failures) ==
    [total_jobs |-> Len(js),
     successful_applications |-> count,
     failed_applications |-> Len(failures),
     applied_jobs |-> applied,
     failed_jobs |-> failures]

CurJob == batch_jobs[i]

\* job_applicator.py:195-198  top of the loop of batch_apply
BatchLoop ==
    /\ pc = "batch_loop"
    /\ IF i > Len(batch_jobs) \/ cap_reached(max_applications, applied_count)
       THEN pc' = "batch_return"
       ELSE pc' = "apply_to_job"
    /\ UNCHANGED <<restVars, filterVars, ledgerVars, call, runVars, batchVars, applicatorVars>>

\* job_applicator.py:41-50  apply_to_job up to the call of the source's routine;
\* an unknown source returns False at once.  The handler of lines 52-59 is
\* never entered: both routines catch every Exception themselves.
ApplyToJob ==
    /\ pc = "apply_to_job"
    /\ att' = NoAttempt
    /\ pc' = IF dispatch(CurJob.source) = "unknown" THEN "attempt_done" ELSE "launch"
    /\ UNCHANGED <<restVars, filterVars, ledgerVars, call, runVars, batchVars,
                   applied_jobs, failed_applications, driver, open_sessions>>

\* job_applicator.py:65-67, 118-120  webdriver.Chrome(options=options)
Launch ==
    /\ pc = "launch"
    /\ \E started \in BOOLEAN :
         IF started
         THEN /\ driver' = "open"
              /\ open_sessions' = open_sessions + 1
              /\ pc' = "get"
         ELSE /\ UNCHANGED <<driver, open_sessions>>
              /\ pc' = "finally"
    /\ UNCHANGED <<restVars, filterVars, ledgerVars, call, runVars, batchVars,
                   applied_jobs, failed_applications, att>>

\* job_applicator.py:69, 122  driver.get(job['url']); a posting without URL
\* cannot be navigated to.
Navigate ==
    /\ pc = "get"
    /\ \E loaded \in BOOLEAN :
         pc' = IF loaded /\ CurJob.url # NULL THEN "apply_button" ELSE "finally"
    /\ UNCHANGED <<restVars, filterVars, ledgerVars, call, runVars, batchVars, applicatorVars>>

\* job_applicator.py:76-79, 129-132  wait for the apply control and click it
ClickApply ==
    /\ pc = "apply_button"
    /\ \E clicked \in BOOLEAN :
         IF clicked
         THEN /\ att' = [att EXCEPT !.apply_clicked = TRUE]
              /\ pc' = "upload"
         ELSE /\ UNCHANGED att
              /\ pc' = "finally"
    /\ UNCHANGED <<restVars, filterVars, ledgerVars, call, runVars, batchVars,
                   applied_jobs, failed_applications, driver, open_sessions>>

\* job_applicator.py:85-88, 137-143
Upload ==
    /\ pc = "upload"
    /\ \E outcome \in UploadOutcomes :
         pc' = IF upload_continues(CurJob.source, outcome) THEN "submit" ELSE "finally"
    /\ UNCHANGED <<restVars, filterVars, ledgerVars, call, runVars, batchVars, applicatorVars>>

\* job_applicator.py:91-101, 146-164  submit, then record the success
Submit ==
    /\ pc = "submit"
    /\ \E outcome \in SubmitOutcomes :
         IF submit_returns(CurJob.source, outcome)
         THEN /\ att' = [att EXCEPT !.submit_clicked = submit_clicks(CurJob.source, outcome),
                                    !.ok = TRUE]
              /\ applied_jobs' = Append(applied_jobs, [job |-> CurJob])
         ELSE UNCHANGED <<att, applied_jobs>>
    /\ pc' = "finally"
    /\ UNCHANGED <<restVars, filterVars, ledgerVars, call, runVars, batchVars,
                   failed_applications, driver, open_sessions>>

\* job_applicator.py:110-112, 173-175  the finally clause, then the return
Finally ==
    /\ pc = "finally"
    /\ IF finally_quits(driver)
       THEN /\ open_sessions' = open_sessions - 1
            /\ driver' = "None"
       ELSE UNCHANGED <<driver, open_sessions>>
    /\ pc' = "attempt_done"
    /\ UNCHANGED <<restVars, filterVars, ledgerVars, call, runVars, batchVars,
                   applied_jobs, failed_applications, att>>

\* job_applicator.py:202-207  back in batch_apply: count, delay, next index
AfterAttempt ==
    /\ pc = "attempt_done"
    /\ applied_count' = IF att.ok THEN applied_count + 1 ELSE applied_count
    /\ attempts' = Append(attempts, [job |-> CurJob, ok |-> att.ok])
    /\ events' = IF delay_due(i, Len(batch_jobs))
                 THEN events \o <<"attempt", "delay">>
                 ELSE Append(events, "attempt")
    /\ i' = i + 1
    /\ pc' = "batch_loop"
    /\ UNCHANGED <<restVars, filterVars, ledgerVars, call, runVars, max_applications, caller,
                   calls, batch_jobs, results, applicatorVars>>

\* job_applicator.py:209-215  batch_apply returns to whoever called it
BatchReturn ==
    /\ pc = "batch_return"
    /\ results' = batch_result(batch_jobs, applied_count, applied_jobs, failed_applications)
    /\ pc' = IF caller = "run" THEN "record" ELSE "returned"
    /\ pos' = 1
    /\ UNCHANGED <<restVars, filterVars, ledgerVars, call, apply, steps, failed, stats,
                   max_applications, caller, calls, batch_jobs, i, applied_count,
                   attempts, events, applicatorVars>>

BatchSteps ==
    \/ BatchLoop \/ ApplyToJob \/ Launch \/ Navigate \/ ClickApply
    \/ Upload \/ Submit \/ Finally \/ AfterAttempt \/ BatchReturn

\* --------------------------------------------------------------- SpecBatch
\* A new JobApplicator, then calls of batch_apply with any postings and cap.
InitBatch ==
    /\ pc = "idle"
    /\ config = [has_job_search |-> TRUE, has_delay |-> TRUE, has_filters |-> TRUE,
                 filters |-> DefaultFilters]
    /\ jobs = <<>>
    /\ filtered_jobs = <<>>
    /\ jobsTable = <<>>
    /\ applications = <<>>
    /\ call = NoCall
    /\ Fresh
    /\ args = NoArgs
    /\ ScraperIdle
    /\ StoreIdle
    /\ ResumeIdle
    /\ threads = <<>>

\* job_applicator.py:177-194  batch_apply(jobs, resume_path, max_applications=cap)
BatchApplyCall ==
    /\ pc \in {"idle", "returned"}
    /\ calls < MaxCalls
    /\ \E js \in SeqsUpTo(ApplyPostings, MaxJobs), cap \in Caps :
         /\ batch_jobs' = js
         /\ max_applications' = cap
    /\ calls' = calls + 1
    /\ caller' = "api"
    /\ i' = 1
    /\ applied_count' = 0
    /\ attempts' = <<>>
    /\ events' = <<>>
    /\ pc' = "batch_loop"
    /\ UNCHANGED <<restVars, filterVars, ledgerVars, call, runVars, results, applicatorVars>>

NextBatch == BatchApplyCall \/ BatchSteps

SpecBatch == InitBatch /\ [][NextBatch]_vars

\* ------------------------------------------------------------ orchestrator
\* a handler that logs and does not re-raise
on_exception_swallowed(next_step) == next_step

\* main.py:227-229  the handler of run(): log, then re-raise; no later step of
\* the run is entered.
on_exception(next_step) == "raised"

\* main.py:78-85 with job_scraper.py:170-196: the adapters return Indeed and
\* Glassdoor postings, in any number and order.
Retrievable == SeqsUpTo(RunPostings, MaxJobs)

\* main.py:191-193  step 1; config['job_search'] raises KeyError when the
\* loaded document has no such section (main.py:74-75).
ScrapeJobs ==
    /\ pc = "step1"
    /\ steps' = Append(steps, "retrieve")
    /\ IF config.has_job_search
       THEN /\ \E js \in Retrievable : jobs' = js
            /\ pc' = "step2"
            /\ failed' = failed
       ELSE /\ jobs' = jobs
            /\ pc' = on_exception("step2")
            /\ failed' = "retrieve"
    /\ pos' = 1
    /\ UNCHANGED <<restVars, config, filtered_jobs, ledgerVars, call, apply, stats, batchVars,
                   applicatorVars>>

\* a loop that stops after the first posting
persist_done_after_first(position, retrieved) ==
    position > 1 \/ position > Len(retrieved)

\* main.py:135  `for job in jobs`: the loop ends after the last posting
persist_done(position, retrieved) == position > Len(retrieved)

\* main.py:195-197 with 129-137  step 2, one add_job call per posting
SaveJobsToDatabase ==
    /\ pc = "step2"
    /\ steps' = IF pos = 1 THEN Append(steps, "persist") ELSE steps
    /\ IF persist_done(pos, jobs)
       THEN /\ pc' = "step3"
            /\ UNCHANGED <<jobsTable, pos>>
       ELSE /\ \E fault \in Faults : jobsTable' = add_job(jobsTable, jobs[pos], fault).rows
            /\ pos' = pos + 1
            /\ pc' = pc
    /\ UNCHANGED <<restVars, filterVars, applications, call, apply, failed, stats, batchVars,
                   applicatorVars>>

\* main.py:199-201 with 87-127  step 3; config['filters'] raises KeyError when
\* the loaded document has no such section (main.py:97).
FilterJobs ==
    /\ pc = "step3"
    /\ steps' = Append(steps, "filter")
    /\ IF config.has_filters
       THEN /\ filtered_jobs' = filter_jobs(jobs, config.filters)
            /\ pc' = IF apply THEN "step4" ELSE "step5"
            /\ failed' = failed
       ELSE /\ filtered_jobs' = filtered_jobs
            /\ pc' = on_exception(IF apply THEN "step4" ELSE "step5")
            /\ failed' = "filter"
    /\ UNCHANGED <<restVars, config, jobs, ledgerVars, call, apply, pos, stats, batchVars,
                   applicatorVars>>

\* main.py:203-206 with 139-163  step 4 up to the call of batch_apply: nothing
\* to do without postings (line 150-152); the delay is read from the
\* configuration (line 162) before batch_apply is entered.
ApplyToJobs ==
    /\ pc = "step4"
    /\ steps' = Append(steps, "submit")
    /\ IF filtered_jobs = <<>>
       THEN /\ pc' = "step5"
            /\ failed' = failed
            /\ UNCHANGED <<batch_jobs, caller, calls, i, applied_count, attempts, events>>
       ELSE IF ~config.has_delay
       THEN /\ pc' = on_exception("step5")
            /\ failed' = "submit"
            /\ UNCHANGED <<batch_jobs, caller, calls, i, applied_count, attempts, events>>
       ELSE /\ pc' = "batch_loop"
            /\ failed' = failed
            /\ batch_jobs' = filtered_jobs
            /\ caller' = "run"
            /\ calls' = calls + 1
            /\ i' = 1
            /\ applied_count' = 0
            /\ attempts' = <<>>
            /\ events' = <<>>
    /\ UNCHANGED <<restVars, filterVars, ledgerVars, call, apply, pos, stats, max_applications,
                   results, applicatorVars>>

\* main.py:166-170  one iteration of the loop over results['applied_jobs']:
\* add_job, and add_application only if add_job returned an identifier
record_application(table, apps, job_data, job_fault, app_fault) ==
    LET added == add_job(table, job_data, job_fault)
    IN  [jobs |-> added.rows,
         applications |->
            IF added.ret # NoId
            THEN add_application(apps, added.ret, ResumePath, "applied", app_fault).rows
            ELSE apps]

\* main.py:165-172  the rest of step 4
RecordApplications ==
    /\ pc = "record"
    /\ IF pos > Len(results.applied_jobs)
       THEN /\ pc' = "step5"
            /\ UNCHANGED <<jobsTable, applications, pos>>
       ELSE /\ \E job_fault \in Faults, app_fault \in Faults :
                 LET r == record_application(jobsTable, applications,
                                             results.applied_jobs[pos].job,
                                             job_fault, app_fault)
                 IN  /\ jobsTable' = r.jobs
                     /\ applications' = r.applications
            /\ pos' = pos + 1
            /\ pc' = pc
    /\ UNCHANGED <<restVars, filterVars, call, apply, steps, failed, stats, batchVars,
                   applicatorVars>>

\* main.py:213-225  step 5; get_statistics returns {} when the database fails
ReportStatistics ==
    /\ pc = "step5"
    /\ steps' = Append(steps, "report")
    /\ \E fault \in Faults :
         stats' = get_application_statistics(jobsTable, applications, fault)
    /\ pc' = "done"
    /\ UNCHANGED <<restVars, filterVars, ledgerVars, call, apply, failed, pos, batchVars,
                   applicatorVars>>

\* a --test that leaves apply as --no-apply set it
apply_flag_test_ignored(a) == ~a.no_apply

\* main.py:247-252  apply = not args.no_apply; if args.test: apply = False
apply_flag(a) == IF a.test THEN FALSE ELSE ~a.no_apply

\* ----------------------------------------------------------------- SpecRun
\* The configuration documents a run may load: the default one, one without
\* filters, and documents lacking a section (validate_config is never called).
RunConfigs ==
    {[has_job_search |-> a, has_delay |-> b, has_filters |-> c, filters |-> f] :
        a \in BOOLEAN, b \in BOOLEAN, c \in BOOLEAN, f \in {DefaultFilters, NoFilters}}

\* The ledger file at start: new, or holding what an earlier run stored.
PriorLedgers ==
    {<<>>, <<[id |-> 1, title |-> R2.title, company |-> R2.company, url |-> R2.url,
             source |-> R2.source]>>}

\* main.py:242-254  parse_args, JobAutomationApp(config), then
\* run(apply, max_applications) with max_applications = args.max_apply
InitRun ==
    /\ pc = "step1"
    /\ config \in RunConfigs
    /\ jobs = <<>>
    /\ filtered_jobs = <<>>
    /\ jobsTable \in PriorLedgers
    /\ applications = <<>>
    /\ call = NoCall
    /\ args \in Args
    /\ apply = apply_flag(args)
    /\ max_applications = args.max_apply
    /\ steps = <<>>
    /\ failed = "none"
    /\ pos = 1
    /\ stats = [empty |-> TRUE]
    /\ caller = "api"
    /\ calls = 0
    /\ batch_jobs = <<>>
    /\ i = 1
    /\ applied_count = 0
    /\ results = [empty |-> TRUE]
    /\ applied_jobs = <<>>
    /\ failed_applications = <<>>
    /\ driver = "None"
    /\ att = NoAttempt
    /\ open_sessions = 0
    /\ attempts = <<>>
    /\ events = <<>>
    /\ ScraperIdle
    /\ StoreIdle
    /\ ResumeIdle
    /\ threads = <<>>

NextRun ==
    \/ ScrapeJobs \/ SaveJobsToDatabase \/ FilterJobs \/ ApplyToJobs
    \/ BatchSteps \/ RecordApplications \/ ReportStatistics

SpecRun == InitRun /\ [][NextRun]_vars

\* ----------------------------------------------------------------- scraper
\* What one result page shows: no card, or one card; a card either parses into
\* a posting or lacks an element the adapter looks for (job_scraper.py:58-63,
\* 136-142), which raises inside the card's try.
IndeedCards ==
    {[parses |-> TRUE, job |-> R1], [parses |-> TRUE, job |-> R4],
     [parses |-> FALSE, job |-> R1]}
GlassdoorCards ==
    {[parses |-> TRUE, job |-> R2], [parses |-> TRUE, job |-> R3],
     [parses |-> FALSE, job |-> R2]}
PagesOf(cards) == {<<>>} \cup {<<c>> : c \in cards}

\* job_scraper.py:56-80, 134-157  the loop over the cards of one page: a card
\* that raises is logged and skipped
parse_cards(cards) ==
    LET good == SelectSeq(cards, LAMBDA c : c.parses)
    IN  [n \in 1..Len(good) |-> good[n].job]
has_bad_card(cards) == \E n \in 1..Len(cards) : ~cards[n].parses

\* a scrape_indeed without the try of line 43: the error leaves the adapter
scrape_indeed_reraise(return_pc) == "raised"

\* job_scraper.py:82-85  except Exception: log, then return jobs
scrape_indeed_except(return_pc) == return_pc

\* job_scraper.py:181-186 and 42-43  all_jobs = [], then scrape_indeed is
\* entered; nothing of self.config is read
ScrapeIndeed ==
    /\ pc = "scrape_all_sources"
    /\ all_jobs' = <<>>
    /\ invoked' = Append(invoked, "indeed")
    /\ adapter_jobs' = <<>>
    /\ page' = 1
    /\ pc' = "indeed_page"
    /\ UNCHANGED <<args, resumeVars, threads, storeVars, job_sources, returned, broke, filterVars, ledgerVars,
                   call, runVars, batchVars, applicatorVars>>

\* job_scraper.py:44-80  one page of the loops of scrape_indeed; session.get
\* (line 51) or the parser may raise, which ends the loops
IndeedPage ==
    /\ pc = "indeed_page"
    /\ IF page > MaxPages
       THEN /\ pc' = "indeed_return"
            /\ UNCHANGED <<adapter_jobs, page, broke>>
       ELSE \E fetched \in BOOLEAN, cards \in PagesOf(IndeedCards) :
              IF fetched
              THEN /\ adapter_jobs' = adapter_jobs \o parse_cards(cards)
                   /\ broke' = IF has_bad_card(cards)
                               THEN broke \cup {<<"indeed", "card">>} ELSE broke
                   /\ page' = page + 1
                   /\ pc' = pc
              ELSE /\ broke' = broke \cup {<<"indeed", "page">>}
                   /\ pc' = scrape_indeed_except("indeed_return")
                   /\ UNCHANGED <<adapter_jobs, page>>
    /\ UNCHANGED <<args, resumeVars, threads, storeVars, job_sources, invoked, all_jobs, returned, filterVars,
                   ledgerVars, call, runVars, batchVars, applicatorVars>>

\* job_scraper.py:85 and 186-188  return jobs; all_jobs.extend(indeed_jobs)
IndeedReturn ==
    /\ pc = "indeed_return"
    /\ all_jobs' = all_jobs \o adapter_jobs
    /\ returned' = Append(returned, [adapter |-> "indeed", jobs |-> adapter_jobs])
    /\ pc' = "scrape_glassdoor"
    /\ UNCHANGED <<args, resumeVars, threads, storeVars, job_sources, invoked, page, adapter_jobs, broke,
                   filterVars, ledgerVars, call, runVars, batchVars, applicatorVars>>

\* job_scraper.py:191 and 114-120  scrape_glassdoor is entered and starts the
\* browser; a start-up error is caught at line 162
ScrapeGlassdoor ==
    /\ pc = "scrape_glassdoor"
    /\ invoked' = Append(invoked, "glassdoor")
    /\ adapter_jobs' = <<>>
    /\ page' = 1
    /\ \E started \in BOOLEAN :
         IF started
         THEN /\ driver' = "open"
              /\ open_sessions' = open_sessions + 1
              /\ broke' = broke
              /\ pc' = "glassdoor_page"
         ELSE /\ UNCHANGED <<driver, open_sessions>>
              /\ broke' = broke \cup {<<"glassdoor", "start">>}
              /\ pc' = "glassdoor_finally"
    /\ UNCHANGED <<args, resumeVars, threads, storeVars, job_sources, all_jobs, returned, filterVars,
                   ledgerVars, call, runVars, batchVars, applied_jobs,
                   failed_applications, att>>

\* job_scraper.py:122-160  one page of the loops of scrape_glassdoor; a page
\* that does not load is logged and the loop continues with the next one
GlassdoorPage ==
    /\ pc = "glassdoor_page"
    /\ IF page > MaxPages
       THEN /\ pc' = "glassdoor_finally"
            /\ UNCHANGED <<adapter_jobs, page, broke>>
       ELSE \E loaded \in BOOLEAN, cards \in PagesOf(GlassdoorCards) :
              /\ IF loaded
                 THEN /\ adapter_jobs' = adapter_jobs \o parse_cards(cards)
                      /\ broke' = IF has_bad_card(cards)
                                  THEN broke \cup {<<"glassdoor", "card">>} ELSE broke
                 ELSE /\ adapter_jobs' = adapter_jobs
                      /\ broke' = broke \cup {<<"glassdoor", "page">>}
              /\ page' = page + 1
              /\ pc' = pc
    /\ UNCHANGED <<args, resumeVars, threads, storeVars, job_sources, invoked, all_jobs, returned, filterVars,
                   ledgerVars, call, runVars, batchVars, applicatorVars>>

\* job_scraper.py:164-168 and 191-193  finally: quit the browser if it was
\* started; return jobs; all_jobs.extend(glassdoor_jobs)
GlassdoorReturn ==
    /\ pc = "glassdoor_finally"
    /\ IF driver = "open"
       THEN /\ driver' = "None"
            /\ open_sessions' = open_sessions - 1
       ELSE UNCHANGED <<driver, open_sessions>>
    /\ all_jobs' = all_jobs \o adapter_jobs
    /\ returned' = Append(returned, [adapter |-> "glassdoor", jobs |-> adapter_jobs])
    /\ pc' = "scrape_return"
    /\ UNCHANGED <<args, resumeVars, threads, storeVars, job_sources, invoked, page, adapter_jobs, broke,
                   filterVars, ledgerVars, call, runVars, batchVars, applied_jobs,
                   failed_applications, att>>

\* job_scraper.py:195-196  return all_jobs
ScrapeReturn ==
    /\ pc = "scrape_return"
    /\ pc' = "scraped"
    /\ UNCHANGED <<args, resumeVars, threads, storeVars, scraperVars, filterVars, ledgerVars, call, runVars,
                   batchVars, applicatorVars>>

\* -------------------------------------------------------------- SpecScrape
\* JobScraper(config) with any of the source lists configured, then one call
\* scrape_all_sources(keywords, location).
InitScrape ==
    /\ pc = "scrape_all_sources"
    /\ config = [has_job_search |-> TRUE, has_delay |-> TRUE, has_filters |-> TRUE,
                 filters |-> DefaultFilters]
    /\ jobs = <<>>
    /\ filtered_jobs = <<>>
    /\ jobsTable = <<>>
    /\ applications = <<>>
    /\ call = NoCall
    /\ Fresh
    /\ args = NoArgs
    /\ job_sources \in SourceLists
    /\ invoked = <<>>
    /\ page = 1
    /\ adapter_jobs = <<>>
    /\ all_jobs = <<>>
    /\ returned = <<>>
    /\ broke = {}
    /\ StoreIdle
    /\ ResumeIdle
    /\ threads = <<>>

NextScrape ==
    \/ ScrapeIndeed \/ IndeedPage \/ IndeedReturn
    \/ ScrapeGlassdoor \/ GlassdoorPage \/ GlassdoorReturn \/ ScrapeReturn

SpecScrape == InitScrape /\ [][NextScrape]_vars

\* ------------------------------------------------------------ config store
\* str.split('.'): the segments between the dots; a key without dot is one
\* segment, and two dots in a row enclose the empty segment
RECURSIVE split(_)
split(key) ==
    IF \A n \in 1..Len(key) : key[n] # "."
    THEN <<key>>
    ELSE LET dot == CHOOSE n \in 1..Len(key) :
                        key[n] = "." /\ \A m \in 1..(n - 1) : key[m] # "."
         IN  <<SubSeq(key, 1, dot - 1)>> \o split(SubSeq(key, dot + 1, Len(key)))

StartsWith(path, at) == Len(at) <= Len(path) /\ SubSeq(path, 1, Len(at)) = at
Below(path, at) == SubSeq(path, Len(at) + 1, Len(path))

\* the value stored at node `at`: the tree below it
subtree(doc, at) ==
    [q \in {Below(p, at) : p \in {x \in DOMAIN doc : StartsWith(x, at)}} |->
        doc[at \o q]]

\* a load_config whose handler is missing: the error leaves the call
load_config_unhandled(f) ==
    CASE f.state = "absent" -> [raised |-> FALSE, config |-> get_default_config]
      [] f.state = "json" -> [raised |-> FALSE, config |-> f.content]
      [] OTHER -> [raised |-> TRUE, config |-> EmptyDocument]

\* config_manager.py:30-50  a file that is there is opened and parsed; open
\* (line 39) raises for an unreadable file and json.load (line 40) for a file
\* that is no JSON; the handler of lines 46-48 installs the default document.
load_config(f) ==
    CASE f.state = "absent" -> [raised |-> FALSE, config |-> get_default_config]
      [] f.state = "json" -> [raised |-> FALSE, config |-> f.content]
      [] OTHER -> [raised |-> FALSE, config |-> get_default_config]

\* config_manager.py:126-131  value = self.config; for k in keys: value =
\* value[k].  Subscripting a dict with a key it lacks raises KeyError;
\* subscripting a number, a string, a list or None with a key raises TypeError.
RECURSIVE get_loop(_, _, _)
get_loop(doc, at, keys) ==
    IF keys = <<>> THEN [exc |-> "none", value |-> subtree(doc, at)]
    ELSE IF doc[at] # Mapping THEN [exc |-> "TypeError", value |-> PyNone]
    ELSE IF Append(at, Head(keys)) \notin DOMAIN doc
    THEN [exc |-> "KeyError", value |-> PyNone]
    ELSE get_loop(doc, Append(at, Head(keys)), Tail(keys))

\* config_manager.py:113-135  only KeyError is handled (line 133)
get(doc, key, default) ==
    LET r == get_loop(doc, <<>>, split(key))
    IN  CASE r.exc = "none" -> [raised |-> FALSE, value |-> r.value]
          [] r.exc = "KeyError" -> [raised |-> FALSE, value |-> default]
          [] OTHER -> [raised |-> TRUE, value |-> PyNone]

\* a loop that executes config[k] = {} whether or not k is there
enter_level_always_new(doc, child) ==
    [p \in {x \in DOMAIN doc : ~StartsWith(x, child)} \cup {child} |->
        IF p = child THEN Mapping ELSE doc[p]]

\* config_manager.py:153-154  if k not in config: config[k] = {}
enter_level(doc, child) ==
    IF child \in DOMAIN doc THEN doc ELSE (child :> Mapping) @@ doc

\* config_manager.py:157  config[keys[-1]] = value: what was stored under the
\* key is replaced as a whole
assign(doc, at, value) ==
    [p \in {x \in DOMAIN doc : ~StartsWith(x, at)} \cup {at \o q : q \in DOMAIN value} |->
        IF StartsWith(p, at) THEN value[Below(p, at)] ELSE doc[p]]

\* config_manager.py:150-157  the walk of set; `in`, subscripting or item
\* assignment on a value that is no dict raises TypeError (a string answers
\* `in` but refuses the subscript or the assignment that follows)
RECURSIVE set_loop(_, _, _, _)
set_loop(doc, at, keys, value) ==
    IF doc[at] # Mapping THEN [ok |-> FALSE, config |-> doc]
    ELSE IF Len(keys) = 1
    THEN [ok |-> TRUE, config |-> assign(doc, Append(at, keys[1]), value)]
    ELSE LET child == Append(at, Head(keys))
         IN  set_loop(enter_level(doc, child), child, Tail(keys), value)

\* config_manager.py:137-163  True, or False from the handler of lines 161-163
set(doc, key, value) == set_loop(doc, <<>>, split(key), value)

\* config_manager.py:19-28 and 30-50  ConfigManager(config_path), and any
\* later call of load_config
LoadConfig ==
    /\ pc \in {"construct", "store"}
    /\ call = NoCall
    /\ LET r == load_config(file)
       IN  /\ document' = r.config
           /\ call' = [op |-> "load_config", raised |-> r.raised]
           /\ pc' = IF r.raised THEN "raised" ELSE "store"
    /\ UNCHANGED <<args, resumeVars, threads, scraperVars, file, sets, config, jobs, filtered_jobs,
                   ledgerVars, runVars, batchVars, applicatorVars>>

\* config_manager.py:113-135
Get ==
    /\ pc = "store"
    /\ call = NoCall
    /\ \E key \in DottedKeys, default \in Defaults :
         LET r == get(document, key, default)
         IN  call' = [op |-> "get", key |-> key, default |-> default,
                      raised |-> r.raised, value |-> r.value]
    /\ UNCHANGED <<args, resumeVars, threads, scraperVars, storeVars, pc, filterVars, ledgerVars,
                   runVars, batchVars, applicatorVars>>

\* config_manager.py:137-163
Set ==
    /\ pc = "store"
    /\ call = NoCall
    /\ sets < MaxSets
    /\ \E key \in DottedKeys, value \in SetValues :
         LET r == set(document, key, value)
         IN  /\ document' = r.config
             /\ call' = [op |-> "set", key |-> key, value |-> value, ret |-> r.ok]
    /\ sets' = sets + 1
    /\ UNCHANGED <<args, resumeVars, threads, scraperVars, file, pc, filterVars, ledgerVars,
                   runVars, batchVars, applicatorVars>>

\* -------------------------------------------------------------- SpecConfig
\* ConfigManager(config_path) on any file, then any calls of get, set and
\* load_config.
InitConfig ==
    /\ pc = "construct"
    /\ config = [has_job_search |-> TRUE, has_delay |-> TRUE, has_filters |-> TRUE,
                 filters |-> DefaultFilters]
    /\ jobs = <<>>
    /\ filtered_jobs = <<>>
    /\ jobsTable = <<>>
    /\ applications = <<>>
    /\ call = NoCall
    /\ Fresh
    /\ args = NoArgs
    /\ ScraperIdle
    /\ file \in Files
    /\ document = EmptyDocument
    /\ sets = 0
    /\ ResumeIdle
    /\ threads = <<>>

NextConfig == LoadConfig \/ Get \/ Set \/ Return

SpecConfig == InitConfig /\ [][NextConfig]_vars

\* ----------------------------------------------------------- resume handler
\* str.replace(old, new): the occurrences of old found scanning from the
\* left, none overlapping another, each replaced by new
RECURSIVE replace(_, _, _)
replace(s, old, new) ==
    IF Len(s) < Len(old) THEN s
    ELSE IF SubSeq(s, 1, Len(old)) = old
    THEN new \o replace(SubSeq(s, Len(old) + 1, Len(s)), old, new)
    ELSE <<Head(s)>> \o replace(Tail(s), old, new)

\* dict.get(key, ''): the empty string for a key that is not there
job_get(job, key) == IF job[key] = Missing THEN <<>> ELSE job[key]

\* resume_handler.py:31-51
load_resume(f) == IF f.loaded THEN f.content ELSE NullText

\* resume_handler.py:53-87.  None when nothing was loaded or the text is empty
\* (line 67); the three replace calls run one after the other, each on the
\* result of the one before (lines 71-73); the loop over keywords only logs
\* (lines 76-80).
customize_resume(f, job, keywords) ==
    LET resume_content == load_resume(f)
    IN  IF resume_content = NullText \/ resume_content = <<>>
        THEN NullText
        ELSE LET first == replace(resume_content, JOB_TITLE, job_get(job, "title"))
                 second == replace(first, COMPANY, job_get(job, "company"))
             IN  replace(second, LOCATION, job_get(job, "location"))

\* --------------------------------------------------------------- SpecResume
\* ResumeHandler(base_resume_path) on any resume file, then one call
\* customize_resume(job, keywords).
InitResume ==
    /\ pc = "customize_resume"
    /\ config = [has_job_search |-> TRUE, has_delay |-> TRUE, has_filters |-> TRUE,
                 filters |-> DefaultFilters]
    /\ jobs = <<>>
    /\ filtered_jobs = <<>>
    /\ jobsTable = <<>>
    /\ applications = <<>>
    /\ call = NoCall
    /\ Fresh
    /\ args = NoArgs
    /\ ScraperIdle
    /\ StoreIdle
    /\ resume_file \in ResumeFiles
    /\ resume_job \in ResumeJobs
    /\ resume_keywords \in KeywordArgs
    /\ customized = NullText
    /\ threads = <<>>

CustomizeResume ==
    /\ pc = "customize_resume"
    /\ customized' = customize_resume(resume_file, resume_job, resume_keywords)
    /\ pc' = "customized"
    /\ UNCHANGED <<args, resume_file, resume_job, resume_keywords, threads, scraperVars,
                   storeVars, filterVars, ledgerVars, call, runVars, batchVars,
                   applicatorVars>>

NextResume == CustomizeResume

SpecResume == InitResume /\ [][NextResume]_vars

\* ------------------------------------------------------------ launcher window
\* gui_launcher.py:166-173  the argument lists of the three run buttons
ScrapeArgs == <<"--no-apply">>
TestArgs == <<"--test">>
FullArgs == <<>>

\* gui_launcher.py:148  cmd = [PYTHON, main.py] + args + ['--config', ...]
command(button_args) == <<"python", "main.py">> \o button_args \o <<"--config">>

\* gui_launcher.py:145-164  _run_command: a new daemon thread is created and
\* started on every call; nothing is looked up before
_run_command(button_args) ==
    Append(threads, [cmd |-> command(button_args), state |-> "started", returncode |-> 0])

\* gui_launcher.py:166-167 with 81  the button 'Scrape (no apply)' is pressed
RunScrape ==
    /\ pc = "mainloop"
    /\ Len(threads) < MaxPresses
    /\ threads' = _run_command(ScrapeArgs)
    /\ UNCHANGED <<pc, args, resumeVars, scraperVars, storeVars, filterVars, ledgerVars,
                   call, runVars, batchVars, applicatorVars>>

\* gui_launcher.py:169-170 with 82  the button 'Test Mode (dry run)' is pressed
RunTest ==
    /\ pc = "mainloop"
    /\ Len(threads) < MaxPresses
    /\ threads' = _run_command(TestArgs)
    /\ UNCHANGED <<pc, args, resumeVars, scraperVars, storeVars, filterVars, ledgerVars,
                   call, runVars, batchVars, applicatorVars>>

\* gui_launcher.py:172-173 with 83  the button 'Run Full' is pressed
RunFull ==
    /\ pc = "mainloop"
    /\ Len(threads) < MaxPresses
    /\ threads' = _run_command(FullArgs)
    /\ UNCHANGED <<pc, args, resumeVars, scraperVars, storeVars, filterVars, ledgerVars,
                   call, runVars, batchVars, applicatorVars>>

\* gui_launcher.py:148-150 and 159-161  the thread starts the process; an
\* error of Popen ends the thread in the except clause
Popen ==
    /\ pc = "mainloop"
    /\ \E t \in 1..Len(threads), started \in BOOLEAN :
         /\ threads[t].state = "started"
         /\ threads' = [threads EXCEPT ![t].state = IF started THEN "running" ELSE "error"]
    /\ UNCHANGED <<pc, args, resumeVars, scraperVars, storeVars, filterVars, ledgerVars,
                   call, runVars, batchVars, applicatorVars>>

\* gui_launcher.py:151-154  the output ends and proc.wait() returns
ProcWait ==
    /\ pc = "mainloop"
    /\ \E t \in 1..Len(threads), code \in {0, 1} :
         /\ threads[t].state = "running"
         /\ threads' = [threads EXCEPT ![t].state = "exited", ![t].returncode = code]
    /\ UNCHANGED <<pc, args, resumeVars, scraperVars, storeVars, filterVars, ledgerVars,
                   call, runVars, batchVars, applicatorVars>>

\* gui_launcher.py:155-158  the message box is shown and the thread ends
Finished ==
    /\ pc = "mainloop"
    /\ \E t \in 1..Len(threads) :
         /\ threads[t].state = "exited"
         /\ threads' = [threads EXCEPT ![t].state = "finished"]
    /\ UNCHANGED <<pc, args, resumeVars, scraperVars, storeVars, filterVars, ledgerVars,
                   call, runVars, batchVars, applicatorVars>>

\* ------------------------------------------------------------------ SpecGui
\* The window after App() (gui_launcher.py:57-65): no run has been started.
InitGui ==
    /\ pc = "mainloop"
    /\ config = [has_job_search |-> TRUE, has_delay |-> TRUE, has_filters |-> TRUE,
                 filters |-> DefaultFilters]
    /\ jobs = <<>>
    /\ filtered_jobs = <<>>
    /\ jobsTable = <<>>
    /\ applications = <<>>
    /\ call = NoCall
    /\ Fresh
    /\ args = NoArgs
    /\ ScraperIdle
    /\ StoreIdle
    /\ ResumeIdle
    /\ threads = <<>>

NextGui == RunScrape \/ RunTest \/ RunFull \/ Popen \/ ProcWait \/ Finished

SpecGui == InitGui /\ [][NextGui]_vars

\* ================================================================== claims
Supported == {"Indeed", "Glassdoor"}
Last(seq) == seq[Len(seq)]

\* Case-insensitive occurrence, stated letter by letter.
SameLetter(a, b) == a = b \/ {a, b} = {"p", "P"} \/ {a, b} = {"q", "Q"}
OccursIgnoringCase(kw, text) ==
    \E off \in 0..(Len(text) - Len(kw)) :
        \A m \in 1..Len(kw) : SameLetter(kw[m], text[off + m])
TitleCompany(job) == job.title \o <<" ">> \o job.company
MatchesAny(keywords, job) ==
    \E kw \in Range(keywords) : OccursIgnoringCase(kw, TitleCompany(job))
CompanyListed(job, filters) == job.company \in Range(filters.exclude_companies)
Kept(job, filters) ==
    /\ ~MatchesAny(filters.exclude_keywords, job)
    /\ filters.required_keywords = <<>> \/ MatchesAny(filters.required_keywords, job)
    /\ ~CompanyListed(job, filters)

\* ---- C1 (Spec)
StoredUrl(job) == job.url # NULL /\ \E n \in 1..Len(jobsTable) : jobsTable[n].url = job.url

C1_UrlsUnique ==
    \A m, n \in 1..Len(jobsTable) :
        (m # n /\ jobsTable[m].url # NULL) => jobsTable[m].url # jobsTable[n].url

C1_StoredUrlRejected ==
    (call = NoCall /\ call'.op = "add_job" /\ StoredUrl(call'.job))
        => (call'.ret = NoId /\ jobsTable' = jobsTable)

\* C1: after any sequence of add_job calls the jobs table holds at most one row
\* per URL; an add_job whose URL is already stored returns no identifier, adds
\* no row and leaves the stored rows as they were.
C1_OneRowPerUrl == [](C1_UrlsUnique) /\ [][C1_StoredUrlRejected]_vars

\* A posting was refused, without any database fault, because a row with its
\* URL and another title is stored.
C1_Witness ==
    /\ call.op = "add_job"
    /\ ~call.fault
    /\ call.ret = NoId
    /\ call.job.title # NullText
    /\ \E n \in 1..Len(jobsTable) :
          jobsTable[n].url = call.job.url /\ jobsTable[n].title # call.job.title
    /\ Len(jobsTable) >= 2

\* ---- C2 (SpecRun)
HasApplication(job) ==
    \E a \in Range(applications), row \in Range(jobsTable) :
        a.job_id = row.id /\ row.url = job.url

\* C2: when a full run completes, every posting batch_apply reported as applied
\* has an application row referencing the job row of its URL.
C2_AppliedAreRecorded ==
    (pc = "done" /\ apply /\ caller = "run")
        => \A n \in 1..Len(results.applied_jobs) :
              HasApplication(results.applied_jobs[n].job)

\* ---- C3 (SpecBatch)
\* C3: for every cap >= 0 no attempt starts once cap successes are recorded,
\* successes never exceed the cap, and when every attempt succeeds and the list
\* has at least cap postings exactly cap attempts are made.
C3_CapRespected ==
    max_applications # None =>
        /\ applied_count <= max_applications[1]
        /\ pc = "apply_to_job" => applied_count < max_applications[1]
        /\ (/\ pc = "returned"
            /\ Len(batch_jobs) >= max_applications[1]
            /\ \A n \in 1..Len(attempts) : attempts[n].ok)
              => Len(attempts) = max_applications[1]

\* ---- C4 (SpecBatch)
\* C4: in the result of batch_apply every attempt of the call is in exactly
\* one list, applied_jobs if it succeeded and failed_jobs if it failed, so the
\* two counts add up to the number of attempts.
C4_EveryAttemptListed ==
    pc = "returned" =>
        /\ results.successful_applications + results.failed_applications = Len(attempts)
        /\ \A n \in 1..Len(attempts) :
              IF attempts[n].ok
              THEN \E m \in 1..Len(results.applied_jobs) :
                      results.applied_jobs[m].job = attempts[n].job
              ELSE \E m \in 1..Len(results.failed_jobs) :
                      results.failed_jobs[m].job = attempts[n].job

\* ---- C5 (SpecBatch)
InRoutine == {"launch", "get", "apply_button", "upload", "submit", "finally"}

C5_UnknownReturnsFalse ==
    (pc = "apply_to_job" /\ CurJob.source \notin Supported)
        => /\ pc' = "attempt_done"
           /\ ~att'.ok
           /\ open_sessions' = open_sessions
           /\ applied_jobs' = applied_jobs

\* C5: apply_to_job on a posting of an unsupported source returns False without
\* raising, starts no browser session and adds nothing to applied_jobs.
C5_UnknownSourceRejected ==
    /\ [](pc \in InRoutine => CurJob.source \in Supported)
    /\ [][C5_UnknownReturnsFalse]_vars

\* An unsupported posting was turned down after an earlier success.
C5_Witness ==
    /\ pc = "attempt_done"
    /\ CurJob.source = "Other"
    /\ ~att.ok
    /\ applied_jobs # <<>>

\* ---- C6 (SpecBatch)
\* C6: a browser session a routine opened is closed before the routine returns
\* on every path, so none is open when apply_to_job has returned and at most
\* one is open at any time during batch_apply.
C6_SessionsClosed ==
    /\ open_sessions <= 1
    /\ pc \notin InRoutine => open_sessions = 0

\* A routine has returned False after it had opened a session and clicked the
\* apply control.
C6_Witness ==
    /\ pc = "attempt_done"
    /\ att.apply_clicked
    /\ ~att.ok
    /\ open_sessions = 0
    /\ Len(attempts) >= 1

\* ---- C7 (SpecFilter)
\* C7: filter_jobs removes every posting whose title+company contains an
\* exclusion keyword, case-insensitively, whatever the other criteria are.
C7_ExcludedRemoved ==
    pc = "filtered" =>
        \A n \in 1..Len(jobs) :
            MatchesAny(config.filters.exclude_keywords, jobs[n])
                => jobs[n] \notin Range(filtered_jobs)

\* A posting that satisfies the two other rules was removed for an exclusion
\* keyword that differs from its text in case, and another posting was kept.
C7_Witness ==
    /\ pc = "filtered"
    /\ filtered_jobs # <<>>
    /\ config.filters.required_keywords # <<>>
    /\ \E n \in 1..Len(jobs) :
          /\ MatchesAny(config.filters.exclude_keywords, jobs[n])
          /\ ~In(config.filters.exclude_keywords[1], TitleCompany(jobs[n]))
          /\ MatchesAny(config.filters.required_keywords, jobs[n])
          /\ ~CompanyListed(jobs[n], config.filters)

\* ---- C8 (SpecFilter)
\* C8: with required keywords configured a posting is kept only if one of them
\* occurs in its title+company; if none occurs in any posting the result is
\* empty; with no required keyword the rule removes nothing.
C8_RequiredKeywords ==
    pc = "filtered" =>
        LET f == config.filters
        IN  /\ f.required_keywords # <<>> =>
                 \A n \in 1..Len(filtered_jobs) :
                     MatchesAny(f.required_keywords, filtered_jobs[n])
            /\ (/\ f.required_keywords # <<>>
                /\ \A n \in 1..Len(jobs) : ~MatchesAny(f.required_keywords, jobs[n]))
                  => filtered_jobs = <<>>
            /\ f.required_keywords = <<>> =>
                 \A n \in 1..Len(jobs) :
                     (~MatchesAny(f.exclude_keywords, jobs[n]) /\ ~CompanyListed(jobs[n], f))
                         => jobs[n] \in Range(filtered_jobs)

\* A posting was removed only because no required keyword occurs in it, and
\* another one was kept.
C8_Witness ==
    /\ pc = "filtered"
    /\ config.filters.required_keywords # <<>>
    /\ filtered_jobs # <<>>
    /\ \E n \in 1..Len(jobs) :
          /\ ~MatchesAny(config.filters.required_keywords, jobs[n])
          /\ ~MatchesAny(config.filters.exclude_keywords, jobs[n])
          /\ ~CompanyListed(jobs[n], config.filters)

\* ---- C9 (SpecFilter)
C9_FilterStep ==
    (pc = "filter_jobs" /\ pc' = "filtered")
        => /\ filtered_jobs' = SelectSeq(jobs, LAMBDA job : Kept(job, config.filters))
           /\ jobs' = jobs
           /\ jobsTable' = jobsTable
           /\ applications' = applications

\* C9: filter_jobs returns the subsequence, in input order and with repeats,
\* of the postings that match no exclusion keyword, match a required keyword
\* when any is configured and whose company is not listed; it changes neither
\* its input nor the ledger.
C9_ExactSubsequence == [][C9_FilterStep]_vars

\* A repeated posting was kept twice and a posting was dropped, the company
\* list naming a company that differs from the kept one only in case.
C9_Witness ==
    /\ pc = "filtered"
    /\ Len(filtered_jobs) = 2
    /\ filtered_jobs[1] = filtered_jobs[2]
    /\ config.filters.exclude_companies = << <<"q">> >>
    /\ filtered_jobs[1].company = <<"Q">>

\* ---- C10 (SpecRun)
\* C10: if a step of run() raises, no later step of the run is executed and
\* the error reaches the caller; a run that failed never completes.
C10_ErrorAbortsRun ==
    /\ [](failed # "none" => (pc = "raised" /\ Last(steps) = failed))
    /\ [][failed = "none"]_vars

\* Step 3 raised after steps 1 and 2 had stored a posting.
C10_Witness ==
    /\ pc = "raised"
    /\ failed = "filter"
    /\ steps = <<"retrieve", "persist", "filter">>
    /\ Len(jobsTable) >= 2

\* ---- C11 (SpecRun)
SubmissionOff == args.no_apply \/ args.test
RowOf(job, id) ==
    [id |-> id, title |-> job.title, company |-> job.company, url |-> job.url,
     source |-> job.source]
C11_NothingSubmitted ==
    /\ calls = 0
    /\ attempts = <<>>
    /\ events = <<>>
    /\ applied_jobs = <<>>
    /\ open_sessions = 0
    /\ driver = "None"
    /\ pc \notin InRoutine
    /\ "submit" \notin Range(steps)
C11_LedgerStep ==
    /\ applications' = applications
    /\ jobsTable' # jobsTable =>
         /\ pc = "step2"
         /\ pos \in 1..Len(jobs)
         /\ jobsTable' = Append(jobsTable, RowOf(jobs[pos], Len(jobsTable) + 1))

\* C11: a run started with --no-apply, with --test, or with both (with or
\* without --max-apply) makes no submission attempt, opens no browser session
\* and adds no application row; the ledger changes only by step 2 appending
\* the row of a retrieved posting.
C11_RetrieveOnly ==
    /\ [](SubmissionOff => C11_NothingSubmitted)
    /\ [][SubmissionOff => C11_LedgerStep]_vars

\* A --test run with --max-apply 1 and without --no-apply completed, postings
\* having passed the filter and step 2 having stored a retrieved posting.
C11_Witness ==
    /\ pc = "done"
    /\ args.test
    /\ ~args.no_apply
    /\ args.max_apply = <<1>>
    /\ filtered_jobs # <<>>
    /\ Len(jobsTable) = 2
    /\ applications = <<>>
    /\ steps = <<"retrieve", "persist", "filter", "report">>
\* ---- C12 (Spec)
RECURSIVE SumOver(_, _)
SumOver(f, S) ==
    IF S = {} THEN 0
    ELSE LET x == CHOOSE y \in S : TRUE IN f[x] + SumOver(f, S \ {x})
StatusesStored == {applications[n].status : n \in 1..Len(applications)}
InStatus(st) == {n \in 1..Len(applications) : applications[n].status = st}

\* C12: after any sequence of add_job, add_application and
\* update_application_status calls, a get_application_statistics call that the
\* database answers reports total_jobs = number of job rows, total_applied =
\* number of application rows, and a status_breakdown whose keys are the
\* statuses that occur, each mapped to the number of applications now in it;
\* the counts sum to total_applied.
C12_StatisticsExact ==
    (call.op = "get_application_statistics" /\ ~call.fault) =>
        /\ call.ret.total_jobs = Len(jobsTable)
        /\ call.ret.total_applied = Len(applications)
        /\ DOMAIN call.ret.status_breakdown = StatusesStored
        /\ \A st \in StatusesStored :
              call.ret.status_breakdown[st] = Cardinality(InStatus(st))
        /\ SumOver(call.ret.status_breakdown, StatusesStored) = call.ret.total_applied

\* Statistics were read from a ledger of three job rows and two applications
\* in two different statuses, one of them set by update_application_status.
C12_Witness ==
    /\ call.op = "get_application_statistics"
    /\ ~call.fault
    /\ call.ret.total_jobs = 3
    /\ call.ret.total_applied = 2
    /\ Cardinality(StatusesStored) = 2
    /\ \E n \in 1..Len(applications) : applications[n].notes = "note"
\* ---- C13 (Spec)
JobIds == {jobsTable[n].id : n \in 1..Len(jobsTable)}
C13_ReferencesExist ==
    \A n \in 1..Len(applications) : applications[n].job_id \in JobIds
C13_DanglingRefused ==
    (call = NoCall /\ call'.op = "add_application" /\ call'.job_id \notin JobIds)
        => (applications' = applications /\ call'.ret = NoId)

\* C13: in every reachable ledger state the job_id of every application row
\* is the id of a stored job row, and add_application with an identifier that
\* matches no job row creates no application row.
C13_JobReferenceExists == [](C13_ReferencesExist) /\ [][C13_DanglingRefused]_vars

\* ---- C14 (Spec)
\* C14: in every reachable ledger state the status of every application row
\* is one of pending, applied, rejected, interviewed, offered, whatever status
\* add_application and update_application_status are called with.
C14_StatusInClosedSet ==
    \A n \in 1..Len(applications) : applications[n].status \in Statuses
\* ---- C15 (Spec)
IsPrefixOf(old, new) == Len(old) <= Len(new) /\ SubSeq(new, 1, Len(old)) = old
SameButStatusNotes(a, b) ==
    /\ a.id = b.id
    /\ a.job_id = b.job_id
    /\ a.resume_path = b.resume_path
C15_LedgerStep ==
    /\ IsPrefixOf(jobsTable, jobsTable')
    /\ Len(applications') >= Len(applications)
    /\ \A n \in 1..Len(applications) :
          \/ applications'[n] = applications[n]
          \/ /\ call'.op = "update_application_status"
             /\ applications[n].id = call'.app_id
             /\ SameButStatusNotes(applications[n], applications'[n])

\* C15: no ledger operation deletes a job row or an application row or
\* changes a stored job row; a stored application row changes only in a step
\* of update_application_status, which leaves its id, job_id and resume_path;
\* so the two row counts never decrease.
C15_LedgerOnlyGrows == [][C15_LedgerStep]_vars

\* Two job rows are stored, the last add_job was refused for its stored URL,
\* and update_application_status has changed a stored application.
C15_Witness ==
    /\ Len(jobsTable) = 2
    /\ Len(applications) = MaxApplications
    /\ \E n \in 1..Len(applications) : applications[n].notes = "note"
    /\ call.op = "add_job"
    /\ call.ret = NoId
    /\ StoredUrl(call.job)
\* ---- C16 (SpecScrape)
SourceKey(source) == IF source = "Indeed" THEN "indeed" ELSE "glassdoor"
TimesInvoked(adapter) == Cardinality({n \in 1..Len(invoked) : invoked[n] = adapter})

\* C16: a call of scrape_all_sources invokes the adapter of every source in
\* the configured job_sources list once and no other adapter, and returns no
\* posting of a source that is not configured.
C16_ConfiguredSourcesOnly ==
    pc = "scraped" =>
        /\ \A s \in Range(job_sources) : TimesInvoked(s) = 1
        /\ \A n \in 1..Len(invoked) : invoked[n] \in Range(job_sources)
        /\ \A n \in 1..Len(all_jobs) : SourceKey(all_jobs[n].source) \in Range(job_sources)

\* ---- C17 (SpecScrape)
\* C17: nothing raised inside an adapter leaves scrape_all_sources; the call
\* ends with both adapters invoked, in order, and returns what the first
\* returned followed by what the second returned.
C17_FailuresContained ==
    /\ pc # "raised"
    /\ pc = "scraped" =>
         /\ invoked = <<"indeed", "glassdoor">>
         /\ Len(returned) = 2
         /\ returned[1].adapter = "indeed"
         /\ returned[2].adapter = "glassdoor"
         /\ all_jobs = returned[1].jobs \o returned[2].jobs

\* Something raised in each adapter, and the postings the Glassdoor adapter
\* found after the Indeed adapter broke off are in the result.
C17_Witness ==
    /\ pc = "scraped"
    /\ {b[1] : b \in broke} = {"indeed", "glassdoor"}
    /\ returned[1].jobs = <<>>
    /\ returned[2].jobs # <<>>
    /\ all_jobs = returned[2].jobs
\* ---- C18 (SpecConfig)
NoDocumentInFile == file.state \in {"absent", "unreadable", "garbage"}
C18_LoadStep ==
    call'.op = "load_config" =>
        /\ ~call'.raised
        /\ pc' = "store"
        /\ NoDocumentInFile =>
             /\ document' = get_default_config
             /\ \A sec \in Sections :
                   /\ <<Seg(sec)>> \in DOMAIN document'
                   /\ document'[<<Seg(sec)>>] = Mapping

\* C18: neither ConfigManager(config_path) nor a later load_config raises,
\* and when the file is absent, unreadable or no JSON the document afterwards
\* is the default document, with its six sections.
C18_LoadNeverRaises == [](pc # "raised") /\ [][C18_LoadStep]_vars

\* load_config has just run on a file that is there but is no JSON, after a
\* set had changed the document; the document is the default one again.
C18_Witness ==
    /\ call.op = "load_config"
    /\ file.state = "garbage"
    /\ sets > 0
    /\ document = get_default_config
\* ---- C19 (SpecConfig)
PathOf(key) == split(key)
Resolves(doc, key) == PathOf(key) \in DOMAIN doc
C19_GetStep ==
    (call'.op = "get" /\ ~Resolves(document, call'.key)) =>
        /\ ~call'.raised
        /\ call'.value = call'.default
        /\ document' = document

\* C19: get(key, default) on a key of which some segment cannot be resolved,
\* be it missing from a mapping or looked up in a value that is no mapping,
\* returns default, does not raise and leaves the document as it is.
C19_UnresolvedGivesDefault == [][C19_GetStep]_vars

\* ---- C20 (SpecConfig)
OnPath(p, key) == StartsWith(PathOf(key), p)
UnderKey(p, key) == StartsWith(p, PathOf(key))
SetReturnedTrue == call'.op = "set" /\ call'.ret
PathCreated ==
    /\ \A n \in 0..(Len(PathOf(call'.key)) - 1) :
          /\ SubSeq(PathOf(call'.key), 1, n) \in DOMAIN document'
          /\ document'[SubSeq(PathOf(call'.key), 1, n)] = Mapping
    /\ get(document', call'.key, PyNone) = [raised |-> FALSE, value |-> call'.value]

\* C20 as stated: when set(key, value) returns True the levels of the path
\* exist, get(key) returns value, and every key of the document that is not
\* on the dotted path is still there with its previous value.
C20_SetStepAllOffPath ==
    SetReturnedTrue =>
        /\ PathCreated
        /\ \A p \in DOMAIN document :
              ~OnPath(p, call'.key) => (p \in DOMAIN document' /\ document'[p] = document[p])
C20_OffPathKept == [][C20_SetStepAllOffPath]_vars

\* C20, amended: when set(key, value) returns True the levels of the path
\* exist, get(key) returns value, and every key that is neither on the dotted
\* path nor below the dotted key keeps its value and no such key appears; what
\* was stored below the dotted key is replaced together with it.
C20_SetStep ==
    SetReturnedTrue =>
        /\ PathCreated
        /\ \A p \in DOMAIN document :
              (~OnPath(p, call'.key) /\ ~UnderKey(p, call'.key))
                  => (p \in DOMAIN document' /\ document'[p] = document[p])
        /\ \A p \in DOMAIN document' :
              (~OnPath(p, call'.key) /\ ~UnderKey(p, call'.key)) => p \in DOMAIN document
C20_SetThenGet == [][C20_SetStep]_vars

\* set("a.b.a", value) has returned True as the last of the set calls: the
\* levels "a" and "a.b" are mappings and the key "b" beside the path is there.
C20_Witness ==
    /\ call.op = "set"
    /\ call.ret
    /\ call.key = <<"a", ".", "b", ".", "a">>
    /\ document[<<Seg("a"), Seg("b")>>] = Mapping
    /\ <<Seg("b")>> \in DOMAIN document
    /\ sets = MaxSets
\* ---- C21 (SpecResume)
FieldAt(text, job) ==
    CASE StartsWith(text, JOB_TITLE) -> job_get(job, "title")
      [] StartsWith(text, COMPANY) -> job_get(job, "company")
      [] OTHER -> job_get(job, "location")
TokenAt(text) ==
    StartsWith(text, JOB_TITLE) \/ StartsWith(text, COMPANY) \/ StartsWith(text, LOCATION)
\* The text with every placeholder in it replaced by the posting's field and
\* every other character kept.
RECURSIVE Substituted(_, _)
Substituted(text, job) ==
    IF text = <<>> THEN <<>>
    ELSE IF TokenAt(text)
    THEN FieldAt(text, job) \o Substituted(SubSeq(text, Len(JOB_TITLE) + 1, Len(text)), job)
    ELSE <<Head(text)>> \o Substituted(Tail(text), job)

\* C21: customize_resume returns the loaded text with every [JOB_TITLE],
\* [COMPANY] and [LOCATION] in it replaced by the posting's title, company and
\* location and all other text unchanged, whatever keyword list it is given.
C21_TokensReplaced ==
    (pc = "customized" /\ resume_file.loaded) =>
        /\ customized = Substituted(resume_file.content, resume_job)
        /\ \A kws \in KeywordArgs :
              customize_resume(resume_file, resume_job, kws) = customized
\* ---- C22 (SpecBatch)
BatchOver == pc \in {"batch_return", "returned"}
\* C22: in a batch_apply call a delay stands only between two attempts: the
\* call starts with an attempt, no delay follows a delay, and when the loop is
\* over, the list exhausted or the cap reached, the last event is an attempt.
C22_DelayOnlyBetween ==
    /\ events # <<>> => events[1] = "attempt"
    /\ \A n \in 1..(Len(events) - 1) : ~(events[n] = "delay" /\ events[n + 1] = "delay")
    /\ (BatchOver /\ events # <<>>) => Last(events) = "attempt"

\* ---- C23 (SpecBatch)
\* C23: an attempt counts as a success, and its posting is appended to
\* applied_jobs, only if in that attempt the apply control was clicked and a
\* submit control was clicked; for both routines.
C23_SuccessNeedsSubmit ==
    /\ [](att.ok => (att.apply_clicked /\ att.submit_clicked))
    /\ [][applied_jobs' # applied_jobs =>
            (att'.ok /\ att'.apply_clicked /\ att'.submit_clicked)]_vars

\* ---- C27 (SpecBatch)
SuccessesOfCall == {n \in 1..Len(attempts) : attempts[n].ok}
\* C27: in what every batch_apply call returns, also a second call on the same
\* JobApplicator, successful_applications = Len(applied_jobs),
\* failed_applications = Len(failed_jobs), and applied_jobs holds exactly the
\* successful attempts of that call, failed_jobs only attempts of that call.
C27_ResultOfThisCall ==
    pc = "returned" =>
        /\ results.successful_applications = Len(results.applied_jobs)
        /\ results.failed_applications = Len(results.failed_jobs)
        /\ Len(results.applied_jobs) = Cardinality(SuccessesOfCall)
        /\ \A n \in 1..Len(results.applied_jobs) :
              \E m \in SuccessesOfCall : attempts[m].job = results.applied_jobs[n].job
        /\ Len(results.failed_jobs) <= Len(attempts)
\* ---- C24 (SpecRun)
StepOrder == <<"retrieve", "persist", "filter", "submit", "report">>
StepsOfRun ==
    IF apply THEN StepOrder ELSE SelectSeq(StepOrder, LAMBDA st : st # "submit")
BeforeSubmit == pc \in {"step1", "step2", "step3"}
InSubmit == pc \in InRoutine \cup {"batch_loop", "apply_to_job", "attempt_done",
                                   "batch_return", "record"}
C24_InOrder ==
    /\ IsPrefixOf(steps, StepsOfRun)
    /\ BeforeSubmit => (calls = 0 /\ attempts = <<>> /\ open_sessions = 0)
    /\ InSubmit => Last(steps) = "submit"
    /\ pc = "done" => steps = StepsOfRun
C24_PersistStep ==
    /\ (pc = "step2" /\ pos <= Len(jobs)) =>
          /\ pc' = "step2"
          /\ pos' = pos + 1
          /\ \E fault \in Faults : jobsTable' = add_job(jobsTable, jobs[pos], fault).rows
    /\ (pc = "step2" /\ pc' # "step2") => (pos = Len(jobs) + 1 /\ pc' = "step3")
    /\ jobs' # jobs => pc = "step1"

\* C24: the steps of a run start in the order retrieve, persist, filter,
\* submit (only if apply), report, each once; no attempt is made before step 4
\* and step 4 is the current step whenever one is; step 2 passes every
\* retrieved posting, in order, to add_job before step 3 starts.
C24_StepsInOrder == [](C24_InOrder) /\ [][C24_PersistStep]_vars

\* A full run has completed: two postings were retrieved, the filter removed
\* R1, the ledger holds R1, and an attempt was made on the other posting.
C24_Witness ==
    /\ pc = "done"
    /\ steps = StepOrder
    /\ Len(jobs) = 2
    /\ jobs[1] = R1
    /\ Len(filtered_jobs) = 1
    /\ filtered_jobs[1] # R1
    /\ \E n \in 1..Len(jobsTable) : jobsTable[n].title = R1.title /\ jobsTable[n].url = R1.url
    /\ Len(attempts) = 1

\* ---- C25 (SpecScrape)
RetrievalFailed(adapter) == \E b \in broke : b[1] = adapter /\ b[2] \in {"page", "start"}

\* C25: when the retrieval of an adapter has failed during the call (a page
\* request that raised, a page that did not load, a browser that did not
\* start), that adapter contributes no posting to the result of the call.
C25_FailedSourceGivesNothing ==
    pc = "scraped" =>
        \A n \in 1..Len(returned) :
            RetrievalFailed(returned[n].adapter) => returned[n].jobs = <<>>

\* ---- C26 (SpecGui)
Running == {t \in 1..Len(threads) : threads[t].state = "running"}

\* C26: at no time do two processes started by the run buttons run at once.
C26_OneRunAtATime == Cardinality(Running) <= 1

\* ---- C28 (Spec)
C28_UpdateStep ==
    call'.op = "update_application_status" =>
        /\ jobsTable' = jobsTable
        /\ Len(applications') = Len(applications)
        /\ call'.ret = NoId
        /\ \A n \in 1..Len(applications) :
              IF applications[n].id = call'.app_id /\ ~call'.fault
              THEN /\ applications'[n].status = call'.status
                   /\ applications'[n].notes = call'.notes
                   /\ applications'[n].id = applications[n].id
                   /\ applications'[n].job_id = applications[n].job_id
                   /\ applications'[n].resume_path = applications[n].resume_path
              ELSE applications'[n] = applications[n]

\* C28: an update_application_status call leaves the jobs table and the
\* number of applications as they were and returns nothing; the application
\* with the given id gets the given status and the given notes (NULL when
\* none are given) and keeps its other fields; every other application is
\* unchanged, so an id that matches none changes nothing.
C28_UpdateOnlyStatusAndNotes == [][C28_UpdateStep]_vars

\* An update without notes has just emptied the notes of one application
\* while another application still holds the notes it was given before.
C28_Witness ==
    /\ call.op = "update_application_status"
    /\ ~call.fault
    /\ call.notes = NULL
    /\ Len(applications) = 2
    /\ \E n, m \in 1..2 :
          /\ applications[n].id = call.app_id
          /\ applications[n].status = call.status
          /\ applications[n].notes = NULL
          /\ applications[m].id # call.app_id
          /\ applications[m].notes = "note"
          /\ applications[m].status # call.status

\* ---- C29 (SpecFilter)
SalarySettings == {0, 1}

\* C29: the list filter_jobs returns is the list it returns under every other
\* setting of filters.min_salary, the other filters and the input the same.
C29_SalaryIgnored ==
    pc = "filtered" =>
        \A m \in SalarySettings :
            filtered_jobs = filter_jobs(jobs, [config.filters EXCEPT !.min_salary = m])

\* filter_jobs has run with a minimum salary configured and has kept one of
\* two postings.
C29_Witness ==
    /\ pc = "filtered"
    /\ config.filters.min_salary = 1
    /\ Len(jobs) = 2
    /\ Len(filtered_jobs) = 1

====
